---- MODULE Spec2Model ----
\* A model of src/src/main.rs: the two RAII observers that bridge the native
\* power-notification callbacks to closures (EffectiveModeObserver and
\* PowerSettingObserver), their trampolines, their Drop implementations and the
\* closures of main that print under the shared io_mutex.
\*
\* The native power subsystem is not part of the source.  It is modelled by
\* its contract: a register call either succeeds and yields a handle, or
\* reports an error and yields none; a successful unregister call returns only
\* when no callback of that registration is still running and ends the
\* registration; an unregister call that reports an error leaves the
\* registration as it was.
EXTENDS Integers, Sequences, FiniteSets, TLC

\* --------------------------------------------------------------------------
\* Bounds
\* --------------------------------------------------------------------------
NumThreads == 2          \* OS threads that deliver native callbacks
MaxDrops == 2            \* runs of the Drop body on one instance (SpecRedrop)

\* --------------------------------------------------------------------------
\* Program constants
\* --------------------------------------------------------------------------
PBT_POWERSETTINGCHANGE == 32787      \* 0x8013, windows crate
SizeOfU32 == 4                       \* std::mem::size_of::<u32>()

\* The three observers main builds, in the order it builds them.
MainOrder == <<"perf_obs", "source_obs", "saver_obs">>
Observers == {MainOrder[i] : i \in 1..Len(MainOrder)}
ModeObservers == {"perf_obs"}
SettingObservers == {"source_obs", "saver_obs"}

Threads == 1..NumThreads

NullPtr == "null"        \* a null raw pointer (context, handle, payload)
NoneHandle == "None"     \* Option::<HPOWERNOTIFY>::None
NoObserver == "none"

\* The context allocation Box::into_raw makes for observer o.  Allocations are
\* told apart by the observer that made them, not by their address.
Ctx(o) == o
\* The handle the native side hands out for the registration of observer o.
HandleOf(o) == o

VARIABLES
    created,      \* number of observers main has constructed so far
    ost,          \* owner's position per observer: unborn, constructed, unregistered, dropped
    handle,       \* the observer's field handle
    raw_context,  \* the observer's field raw_context
    heap,         \* per context allocation: unallocated, live, freed
    nativeReg,    \* the registrations the native side holds
    trace,        \* per observer, the native calls and heap operations made, in order
    drops,        \* per observer, completed runs of the Drop body
    stderr,       \* the observers whose constructor wrote a diagnostic, in order
    thr,          \* per callback thread, its position and the arguments it runs with
    lockHolder,   \* the thread that holds io_mutex, or 0
    poisoned,     \* whether io_mutex is poisoned
    uaf,          \* whether a context that is not a live allocation has been dereferenced
    aborted       \* whether the process has been terminated

vars == <<created, ost, handle, raw_context, heap, nativeReg, trace, drops,
          stderr, thr, lockHolder, poisoned, uaf, aborted>>

obsVars == <<created, ost, handle, raw_context, heap, nativeReg, trace, drops,
            stderr>>
ioVars == <<lockHolder, poisoned>>

\* --------------------------------------------------------------------------
\* Pure functions
\* --------------------------------------------------------------------------

\* impl From<u32> for PowerSourceType
PowerSourceType_from(val) ==
    CASE val = 0 -> "AC"
      [] val = 1 -> "Battery"
      [] val = 2 -> "ShortTerm"
      [] OTHER   -> "Unknown"

\* Mutant: the arm for game mode is missing.
describe_effective_mode_no_game_mode(mode) ==
    CASE mode = 0 -> "slider: leftmost (battery saver)"
      [] mode = 1 -> "slider: left (better battery)"
      [] mode = 2 -> "slider: middle (balanced)"
      [] mode = 3 -> "slider: right (high performance)"
      [] mode = 4 -> "slider: rightmost (max performance)"
      [] OTHER    -> "slider: unknown"

\* fn describe_effective_mode: the texts are rendered in ASCII, one per arm.
describe_effective_mode(mode) ==
    CASE mode = 0 -> "slider: leftmost (battery saver)"
      [] mode = 1 -> "slider: left (better battery)"
      [] mode = 2 -> "slider: middle (balanced)"
      [] mode = 3 -> "slider: right (high performance)"
      [] mode = 4 -> "slider: rightmost (max performance)"
      [] mode = 5 -> "slider: game mode"
      [] OTHER    -> "slider: unknown"

describe_power_source(source) ==
    CASE source = "AC"        -> "power: mains"
      [] source = "Battery"   -> "power: battery"
      [] source = "ShortTerm" -> "power: short term / UPS"
      [] OTHER                -> "power: unknown"

describe_saver_status(is_on) ==
    IF is_on THEN "saver: [on] (reduce background activity)" ELSE "saver: [off]"

\* The line the closure of observer c builds from val and hands to safe_print.
ClosureLine(c, val) ==
    CASE c = "perf_obs"   -> describe_effective_mode(val)
      [] c = "source_obs" -> describe_power_source(PowerSourceType_from(val))
      [] c = "saver_obs"  -> describe_saver_status(val # 0)

\* A POWERBROADCAST_SETTING behind the pointer `setting`, or a null pointer.
NullSetting == [isNull |-> TRUE, DataLength |-> 0, Data |-> <<>>]
Setting(len, data) == [isNull |-> FALSE, DataLength |-> len, Data |-> data]

\* Mutant: the test without its null check of the context.
OuterGuard_no_context_check(context, type_, setting) ==
    /\ type_ = PBT_POWERSETTINGCHANGE
    /\ ~setting.isNull

\* if type_ == PBT_POWERSETTINGCHANGE && !context.is_null() && !setting.is_null()
OuterGuard(context, type_, setting) ==
    /\ type_ = PBT_POWERSETTINGCHANGE
    /\ context # NullPtr
    /\ ~setting.isNull

\* Mutant: a payload of at most four bytes is accepted.
LengthGuard_at_most(setting) == setting.DataLength <= SizeOfU32

\* Mutant: a payload of at least four bytes is accepted.
LengthGuard_at_least(setting) == setting.DataLength >= SizeOfU32

\* if p_setting.DataLength == size_of::<u32>()
LengthGuard(setting) == setting.DataLength = SizeOfU32

\* std::slice::from_raw_parts(data_ptr, p_setting.DataLength as usize)
data_slice(setting) == SubSeq(setting.Data, 1, setting.DataLength)

\* data_slice.try_into().unwrap_or([0, 0, 0, 0]): a slice converts to [u8; 4]
\* only when it has exactly four bytes.
try_into_or_zero(slice) ==
    IF Len(slice) = SizeOfU32 THEN slice ELSE <<0, 0, 0, 0>>

\* Mutant: only the byte behind the declared Data: [u8; 1] field is read.
from_ne_bytes_first_byte(b) == b[1]

\* u32::from_ne_bytes on the little-endian targets of the windows crate.  Four
\* bytes never exceed 2^32 - 1, so no reduction is needed; the payloads drawn
\* below keep the top byte under 128 so that the value fits the model checker's
\* integers.
from_ne_bytes(b) ==
    b[1] + 256 * b[2] + 65536 * b[3] + 16777216 * b[4]

\* Whether static_callback reaches the closure with these arguments.
Dispatches(context, type_, setting) ==
    OuterGuard(context, type_, setting) /\ LengthGuard(setting)

\* The value static_callback passes to the closure.
DecodedValue(setting) == from_ne_bytes(try_into_or_zero(data_slice(setting)))

\* if !context.is_null()  (static_cb)
ModeGuard(context) == context # NullPtr

\* --------------------------------------------------------------------------
\* Initial state: main has built nothing yet, no callback is running
\* --------------------------------------------------------------------------
IdleThread ==
    [pc |-> "idle", fn |-> "none", reg |-> NoObserver, context |-> NullPtr,
     mode |-> 0, type_ |-> 0, setting |-> NullSetting,
     closure |-> NoObserver, val |-> 0, msg |-> "", ret |-> <<>>]

Init ==
    /\ created = 0
    /\ ost = [o \in Observers |-> "unborn"]
    /\ handle = [o \in Observers |-> IF o \in ModeObservers THEN NullPtr ELSE NoneHandle]
    /\ raw_context = [o \in Observers |-> NullPtr]
    /\ heap = [o \in Observers |-> "unallocated"]
    /\ nativeReg = [o \in Observers |-> FALSE]
    /\ trace = [o \in Observers |-> <<>>]
    /\ drops = [o \in Observers |-> 0]
    /\ stderr = <<>>
    /\ thr = [t \in Threads |-> IdleThread]
    /\ lockHolder = 0
    /\ poisoned = FALSE
    /\ uaf = FALSE
    /\ aborted = FALSE

\* The owner of the observers is one thread: it starts no constructor and no
\* drop while it is between the two native-visible steps of another drop.
OwnerFree == \A o \in Observers : ost[o] # "unregistered"

\* A callback of registration o is running on some thread.
InFlight(o) ==
    \E t \in Threads : thr[t].reg = o /\ thr[t].pc \in {"tramp", "closure", "locked"}

\* --------------------------------------------------------------------------
\* The native side's contract
\* --------------------------------------------------------------------------

\* What a register call leaves in its out-parameter / return value: a handle on
\* success, nothing on error.
NativeRegisterHandle(o, ok, none) == IF ok THEN HandleOf(o) ELSE none

\* A successful unregister call ends a registration that is live and returns
\* only when no callback of it is running; a failing one returns at once.
NativeUnregisterReturns(o, ok) == ok => (nativeReg[o] /\ ~InFlight(o))

\* --------------------------------------------------------------------------
\* Constructors
\* --------------------------------------------------------------------------

\* Mutant: the context is freed outside the error test.
EffectiveMode_rollback_always(is_err) == TRUE

\* if hr.is_err() { ...; let _ = Box::from_raw(raw_context); }
EffectiveMode_rollback(is_err) == is_err

\* Mutant: the error arm that forgets the rollback.
PowerSetting_rollback_missing(is_err) == FALSE

\* Err(e) => { ...; unsafe { let _ = Box::from_raw(raw_context); } None }
PowerSetting_rollback(is_err) == is_err

\* Mutant: the error branch writes no diagnostic.
EffectiveMode_diagnostic_missing(is_err) == FALSE

\* if hr.is_err() { eprintln!("PowerRegisterForEffectivePowerModeNotifications failed"); .. }
\* The write to standard error is taken to succeed.
EffectiveMode_diagnostic(is_err) == is_err

\* Err(e) => { eprintln!("RegisterPowerSettingNotification failed for GUID ..."); .. }
PowerSetting_diagnostic(is_err) == is_err

\* The record of what a constructor did to the heap and the native side.
NewTrace(ok, rollback) ==
    <<"alloc", IF ok THEN "register_ok" ELSE "register_err">>
        \o (IF rollback THEN <<"free">> ELSE <<>>)

EffectiveModeObserver_new(o, ok) ==
    /\ ~aborted /\ OwnerFree
    /\ o \in ModeObservers
    /\ created < Len(MainOrder) /\ MainOrder[created + 1] = o
    /\ LET h == NativeRegisterHandle(o, ok, NullPtr)
           rollback == EffectiveMode_rollback(~ok)
       IN  /\ raw_context' = [raw_context EXCEPT ![o] = Ctx(o)]
           /\ handle' = [handle EXCEPT ![o] = h]
           /\ nativeReg' = [nativeReg EXCEPT ![o] = ok]
           /\ heap' = [heap EXCEPT ![o] = IF rollback THEN "freed" ELSE "live"]
           /\ trace' = [trace EXCEPT ![o] = NewTrace(ok, rollback)]
    /\ stderr' = IF EffectiveMode_diagnostic(~ok) THEN Append(stderr, o) ELSE stderr
    /\ ost' = [ost EXCEPT ![o] = "constructed"]
    /\ created' = created + 1
    /\ UNCHANGED <<drops, thr, lockHolder, poisoned, uaf, aborted>>

PowerSettingObserver_new(o, ok) ==
    /\ ~aborted /\ OwnerFree
    /\ o \in SettingObservers
    /\ created < Len(MainOrder) /\ MainOrder[created + 1] = o
    /\ LET h == NativeRegisterHandle(o, ok, NoneHandle)
           rollback == PowerSetting_rollback(~ok)
       IN  /\ raw_context' = [raw_context EXCEPT ![o] = Ctx(o)]
           /\ handle' = [handle EXCEPT ![o] = h]
           /\ nativeReg' = [nativeReg EXCEPT ![o] = ok]
           /\ heap' = [heap EXCEPT ![o] = IF rollback THEN "freed" ELSE "live"]
           /\ trace' = [trace EXCEPT ![o] = NewTrace(ok, rollback)]
    /\ stderr' = IF PowerSetting_diagnostic(~ok) THEN Append(stderr, o) ELSE stderr
    /\ ost' = [ost EXCEPT ![o] = "constructed"]
    /\ created' = created + 1
    /\ UNCHANGED <<drops, thr, lockHolder, poisoned, uaf, aborted>>

\* --------------------------------------------------------------------------
\* Drop
\* --------------------------------------------------------------------------

\* Mutant: the handle test inverted.
EffectiveMode_has_handle_inverted(o) == handle[o] = NullPtr

\* if !self.handle.is_null()
EffectiveMode_has_handle(o) == handle[o] # NullPtr

\* Mutant: drop unregisters without looking at the handle.
PowerSetting_has_handle_always(o) == TRUE

\* if let Some(h) = self.handle
PowerSetting_has_handle(o) == handle[o] # NoneHandle

\* Mutant: drop returns early when the unregister call reports an error.
EffectiveMode_after_unregister_bail(ok) == IF ok THEN "unregistered" ELSE "dropped"

\* let _ = PowerUnregisterFromEffectivePowerModeNotifications(self.handle):
\* the result is discarded and drop goes on to free the context.
EffectiveMode_after_unregister(ok) == "unregistered"

\* let _ = UnregisterPowerSettingNotification(h)
PowerSetting_after_unregister(ok) == "unregistered"

\* Box::from_raw of a context that was freed before is a double free: the
\* allocator may go on or may end the process.
FreeOutcome(o) ==
    IF heap[o] = "freed" THEN aborted' \in {FALSE, TRUE} ELSE aborted' = aborted

\* First half of drop: the handle test and, with a handle, the native
\* unregister call, whose result is discarded.  Without a handle drop returns.
EffectiveModeObserver_drop(o, ok) ==
    /\ ~aborted /\ OwnerFree
    /\ o \in ModeObservers
    /\ ost[o] = "constructed"
    /\ IF EffectiveMode_has_handle(o)
       THEN /\ NativeUnregisterReturns(o, ok)
            /\ nativeReg' = [nativeReg EXCEPT ![o] = IF ok THEN FALSE ELSE @]
            /\ trace' = [trace EXCEPT ![o] =
                            Append(@, IF ok THEN "unregister_ok" ELSE "unregister_err")]
            /\ ost' = [ost EXCEPT ![o] = EffectiveMode_after_unregister(ok)]
            /\ UNCHANGED drops
       ELSE /\ ok
            /\ ost' = [ost EXCEPT ![o] = "dropped"]
            /\ drops' = [drops EXCEPT ![o] = @ + 1]
            /\ UNCHANGED <<nativeReg, trace>>
    /\ UNCHANGED <<created, handle, raw_context, heap, stderr, thr, lockHolder,
                   poisoned, uaf, aborted>>

\* Mutant: drop clears the handle field once it has freed the context.
EffectiveModeObserver_drop_free_clearing(o) ==
    /\ ~aborted
    /\ o \in ModeObservers
    /\ ost[o] = "unregistered"
    /\ heap' = [heap EXCEPT ![raw_context[o]] = "freed"]
    /\ trace' = [trace EXCEPT ![o] = Append(@, "free")]
    /\ FreeOutcome(raw_context[o])
    /\ handle' = [handle EXCEPT ![o] = NullPtr]
    /\ ost' = [ost EXCEPT ![o] = "dropped"]
    /\ drops' = [drops EXCEPT ![o] = @ + 1]
    /\ UNCHANGED <<created, raw_context, nativeReg, stderr, thr, lockHolder,
                   poisoned, uaf>>

\* Second half of drop: let _ = Box::from_raw(self.raw_context).
EffectiveModeObserver_drop_free(o) ==
    /\ ~aborted
    /\ o \in ModeObservers
    /\ ost[o] = "unregistered"
    /\ heap' = [heap EXCEPT ![raw_context[o]] = "freed"]
    /\ trace' = [trace EXCEPT ![o] = Append(@, "free")]
    /\ FreeOutcome(raw_context[o])
    /\ ost' = [ost EXCEPT ![o] = "dropped"]
    /\ drops' = [drops EXCEPT ![o] = @ + 1]
    /\ UNCHANGED <<created, handle, raw_context, nativeReg, stderr, thr,
                   lockHolder, poisoned, uaf>>

PowerSettingObserver_drop(o, ok) ==
    /\ ~aborted /\ OwnerFree
    /\ o \in SettingObservers
    /\ ost[o] = "constructed"
    /\ IF PowerSetting_has_handle(o)
       THEN /\ NativeUnregisterReturns(o, ok)
            /\ nativeReg' = [nativeReg EXCEPT ![o] = IF ok THEN FALSE ELSE @]
            /\ trace' = [trace EXCEPT ![o] =
                            Append(@, IF ok THEN "unregister_ok" ELSE "unregister_err")]
            /\ ost' = [ost EXCEPT ![o] = PowerSetting_after_unregister(ok)]
            /\ UNCHANGED drops
       ELSE /\ ok
            /\ ost' = [ost EXCEPT ![o] = "dropped"]
            /\ drops' = [drops EXCEPT ![o] = @ + 1]
            /\ UNCHANGED <<nativeReg, trace>>
    /\ UNCHANGED <<created, handle, raw_context, heap, stderr, thr, lockHolder,
                   poisoned, uaf, aborted>>

PowerSettingObserver_drop_free(o) ==
    /\ ~aborted
    /\ o \in SettingObservers
    /\ ost[o] = "unregistered"
    /\ heap' = [heap EXCEPT ![raw_context[o]] = "freed"]
    /\ trace' = [trace EXCEPT ![o] = Append(@, "free")]
    /\ FreeOutcome(raw_context[o])
    /\ ost' = [ost EXCEPT ![o] = "dropped"]
    /\ drops' = [drops EXCEPT ![o] = @ + 1]
    /\ UNCHANGED <<created, handle, raw_context, nativeReg, stderr, thr,
                   lockHolder, poisoned, uaf>>

\* The Drop body entered again on an instance that was already torn down, as
\* ptr::drop_in_place or ManuallyDrop::drop allow.  The fields are as the first
\* run left them.
SecondDrop(o) ==
    /\ ~aborted /\ OwnerFree
    /\ ost[o] = "dropped"
    /\ drops[o] < MaxDrops
    /\ ost' = [ost EXCEPT ![o] = "constructed"]
    /\ UNCHANGED <<created, handle, raw_context, heap, nativeReg, trace, drops,
                   stderr, thr, lockHolder, poisoned, uaf, aborted>>

\* --------------------------------------------------------------------------
\* Callback arguments
\* --------------------------------------------------------------------------

\* EFFECTIVE_POWER_MODE values: the six known modes and values outside them.
ModeValues == -1..6

\* Event type tags: the setting-changed tag and another power broadcast tag.
EventTypes == {PBT_POWERSETTINGCHANGE, 18}

\* Declared payload lengths.
Lengths == {0, 1, 2, 3, 4, 5, 8}

\* A payload of n bytes: first byte b, second byte c, the others zero.
Bytes(n, b, c) == [i \in 1..n |-> IF i = 1 THEN b ELSE IF i = 2 THEN c ELSE 0]

Settings ==
    {NullSetting}
        \cup {Setting(n, Bytes(n, b, c)) : n \in Lengths, b \in {0, 1, 2, 255}, c \in {0, 1}}
        \cup {Setting(4, <<1, 2, 3, 4>>), Setting(4, <<255, 255, 255, 127>>)}

\* What the native side delivers while several threads run at once: one mode
\* value, and for a setting a well-formed change and a short payload.
NativeModeValues == {6}
NativeSettingCalls ==
    {<<PBT_POWERSETTINGCHANGE, Setting(4, <<1, 0, 0, 0>>)>>,
     <<PBT_POWERSETTINGCHANGE, Setting(2, <<1, 0>>)>>}

\* --------------------------------------------------------------------------
\* Trampolines
\* --------------------------------------------------------------------------

\* The frame of static_cb(mode, context) on a thread, called for registration reg.
ModeFrame(reg, context, mode) ==
    [IdleThread EXCEPT !.pc = "tramp", !.fn = "static_cb", !.reg = reg,
                       !.context = context, !.mode = mode]

\* The frame of static_callback(context, type_, setting).
SettingFrame(reg, context, type_, setting) ==
    [IdleThread EXCEPT !.pc = "tramp", !.fn = "static_callback", !.reg = reg,
                       !.context = context, !.type_ = type_, !.setting = setting]

\* What a trampoline hands back to the native caller: static_cb nothing,
\* static_callback the status 0.
ReturnValue(fn) == IF fn = "static_callback" THEN <<0>> ELSE <<>>

\* The trampoline in frame f returns to its caller without having called a
\* closure.
Return(t, f) ==
    /\ thr' = [thr EXCEPT ![t] = [f EXCEPT !.pc = "returned", !.ret = ReturnValue(f.fn)]]
    /\ UNCHANGED <<uaf, aborted>>

\* Whether context points to a live allocation.
Live(context) == context # NullPtr /\ heap[context] = "live"

\* (*cb_ptr)(val) in frame f: the trampoline reads the closure behind context
\* and calls it; the closure builds its line before it calls safe_print.
\* Reading a freed or null context is undefined: the call may reach the
\* closure that was there, reach another closure, or end the process.
CallClosure(t, f, val) ==
    IF Live(f.context)
    THEN /\ thr' = [thr EXCEPT ![t] = [f EXCEPT !.pc = "closure", !.closure = f.context,
                                                !.val = val,
                                                !.msg = ClosureLine(f.context, val)]]
         /\ UNCHANGED <<uaf, aborted>>
    ELSE /\ uaf' = TRUE
         /\ \/ /\ aborted' = TRUE
               /\ thr' = [thr EXCEPT ![t] = f]
            \/ /\ \E c \in {k \in Observers : heap[k] # "unallocated"} :
                     thr' = [thr EXCEPT ![t] = [f EXCEPT !.pc = "closure", !.closure = c,
                                                         !.val = val,
                                                         !.msg = ClosureLine(c, val)]]
               /\ UNCHANGED aborted

\* The body of static_cb in frame f.
static_cb_body(t, f) ==
    IF ModeGuard(f.context)
    THEN CallClosure(t, f, f.mode)
    ELSE Return(t, f)

\* The body of static_callback in frame f, up to the closure call.
static_callback_body(t, f) ==
    IF Dispatches(f.context, f.type_, f.setting)
    THEN CallClosure(t, f, DecodedValue(f.setting))
    ELSE Return(t, f)

CanStart(t) == ~aborted /\ thr[t].pc \in {"idle", "returned"}

\* The native side calls static_cb for live registration o on thread t, with
\* the context it was registered with; the trampoline runs up to the closure
\* call or to its return.
Native_static_cb(t, o, mode) ==
    /\ CanStart(t)
    /\ o \in ModeObservers /\ nativeReg[o]
    /\ static_cb_body(t, ModeFrame(o, Ctx(o), mode))
    /\ UNCHANGED <<obsVars, ioVars>>

Native_static_callback(t, o, type_, setting) ==
    /\ CanStart(t)
    /\ o \in SettingObservers /\ nativeReg[o]
    /\ static_callback_body(t, SettingFrame(o, Ctx(o), type_, setting))
    /\ UNCHANGED <<obsVars, ioVars>>

\* A caller other than the native side enters static_cb: with a null context,
\* or with the context of a mode observer whose allocation is live.
Enter_static_cb(t, context, mode) ==
    /\ CanStart(t)
    /\ context = NullPtr \/ (context \in ModeObservers /\ heap[context] = "live")
    /\ thr' = [thr EXCEPT ![t] = ModeFrame(NoObserver, context, mode)]
    /\ UNCHANGED <<obsVars, ioVars, uaf, aborted>>

Enter_static_callback(t, context, type_, setting) ==
    /\ CanStart(t)
    /\ context = NullPtr \/ (context \in SettingObservers /\ heap[context] = "live")
    /\ thr' = [thr EXCEPT ![t] = SettingFrame(NoObserver, context, type_, setting)]
    /\ UNCHANGED <<obsVars, ioVars, uaf, aborted>>

\* static_cb run in the frame thread t has entered.
static_cb(t) ==
    /\ ~aborted
    /\ thr[t].pc = "tramp" /\ thr[t].fn = "static_cb"
    /\ static_cb_body(t, thr[t])
    /\ UNCHANGED <<obsVars, ioVars>>

static_callback(t) ==
    /\ ~aborted
    /\ thr[t].pc = "tramp" /\ thr[t].fn = "static_callback"
    /\ static_callback_body(t, thr[t])
    /\ UNCHANGED <<obsVars, ioVars>>

\* --------------------------------------------------------------------------
\* The closures of main: safe_print
\* --------------------------------------------------------------------------

\* A panic inside a closure unwinds to the extern "system" trampoline: the
\* build either ends the process there or lets the unwind leave into the
\* native caller.
Panic(t) ==
    /\ thr' = [thr EXCEPT ![t] = [IdleThread EXCEPT !.pc = "unwound"]]
    /\ aborted' \in {FALSE, TRUE}

\* Whether lock() hands the guard over: io_mutex is free.
LockAvailable == lockHolder = 0

\* let _lock = io_mutex.lock().unwrap(): blocks while the mutex is held, and
\* panics when it is poisoned.  The closure reads its captures from the
\* context allocation, which must still be live.
safe_print_lock(t) ==
    /\ ~aborted
    /\ thr[t].pc = "closure"
    /\ LockAvailable
    /\ uaf' = (uaf \/ ~Live(thr[t].context))
    /\ IF poisoned
       THEN /\ Panic(t)
            /\ UNCHANGED lockHolder
       ELSE /\ thr' = [thr EXCEPT ![t].pc = "locked"]
            /\ lockHolder' = t
            /\ UNCHANGED aborted
    /\ UNCHANGED <<obsVars, poisoned>>

\* println!("{}", msg) writes the line msg of the frame; then the guard goes
\* out of scope, the closure and the trampoline return and the thread is free
\* for the next call.  println! panics when the write fails; the guard is
\* then dropped during the unwind, which poisons the mutex.
safe_print_println(t, ok) ==
    /\ ~aborted
    /\ thr[t].pc = "locked"
    /\ lockHolder' = 0
    /\ IF ok
       THEN /\ thr' = [thr EXCEPT ![t] = IdleThread]
            /\ UNCHANGED <<poisoned, aborted>>
       ELSE /\ poisoned' = TRUE
            /\ Panic(t)
    /\ UNCHANGED <<obsVars, uaf>>

\* --------------------------------------------------------------------------
\* Specifications
\* --------------------------------------------------------------------------

Construct ==
    \E o \in Observers, ok \in BOOLEAN :
        \/ EffectiveModeObserver_new(o, ok)
        \/ PowerSettingObserver_new(o, ok)

Teardown ==
    \E o \in Observers :
        \/ \E ok \in BOOLEAN : EffectiveModeObserver_drop(o, ok)
        \/ EffectiveModeObserver_drop_free(o)
        \/ \E ok \in BOOLEAN : PowerSettingObserver_drop(o, ok)
        \/ PowerSettingObserver_drop_free(o)

NativeCallbacks ==
    \E t \in Threads, o \in Observers :
        \/ \E mode \in NativeModeValues : Native_static_cb(t, o, mode)
        \/ \E c \in NativeSettingCalls : Native_static_callback(t, o, c[1], c[2])

Closures ==
    \E t \in Threads :
        \/ safe_print_lock(t)
        \/ \E ok \in BOOLEAN : safe_print_println(t, ok)

\* The program with its native callbacks: main builds the observers, the
\* native side calls the trampolines on its threads, the owner drops the
\* observers.
Next == Construct \/ Teardown \/ NativeCallbacks \/ Closures

Spec == Init /\ [][Next]_vars

\* The same program under fair scheduling: a thread that is inside
\* safe_print goes on.  A thread waiting for io_mutex gets it if the mutex
\* becomes free again and again; a thread holding it reaches the end of
\* println!.
Fairness ==
    \A t \in Threads :
        /\ SF_vars(safe_print_lock(t))
        /\ WF_vars(\E ok \in BOOLEAN : safe_print_println(t, ok))

SpecFair == Spec /\ Fairness

\* The owner's thread alone, when the Drop body may be run again on an
\* instance that was torn down.
NextRedrop == Construct \/ Teardown \/ \E o \in Observers : SecondDrop(o)

SpecRedrop == Init /\ [][NextRedrop]_vars

\* The trampolines called directly, one call at a time on the first thread,
\* with every combination of arguments, against the observers main has built.
DirectCalls ==
    \E t \in {Min \in Threads : \A u \in Threads : Min <= u} :
        \/ \E context \in {NullPtr} \cup Observers, mode \in ModeValues :
               Enter_static_cb(t, context, mode)
        \/ \E context \in {NullPtr} \cup Observers, type_ \in EventTypes, setting \in Settings :
               Enter_static_callback(t, context, type_, setting)
        \/ static_cb(t)
        \/ static_callback(t)
        \/ safe_print_lock(t)
        \/ \E ok \in BOOLEAN : safe_print_println(t, ok)

NextTramp == Construct \/ DirectCalls

SpecTramp == Init /\ [][NextTramp]_vars

\* --------------------------------------------------------------------------
\* Properties
\* --------------------------------------------------------------------------

CountIn(seq, e) == Cardinality({i \in DOMAIN seq : seq[i] = e})

UnregisterEvents == {"unregister_ok", "unregister_err"}
UnregisterCalls(o) == Cardinality({i \in DOMAIN trace[o] : trace[o][i] \in UnregisterEvents})
Frees(o) == CountIn(trace[o], "free")
Registered(o) == CountIn(trace[o], "register_ok") > 0
RegistrationFailed(o) == CountIn(trace[o], "register_err") > 0

\* C1: an observer whose registration succeeded makes at most one unregister
\* call and at most one free; a free comes directly after the one unregister
\* call has returned; and once its teardown is over it has made exactly one
\* unregister call and exactly one free.
C1_UnregisterOnceThenFreeOnce ==
    \A o \in Observers :
        Registered(o) =>
            /\ UnregisterCalls(o) <= 1
            /\ Frees(o) <= 1
            /\ Frees(o) = 1 =>
                  /\ UnregisterCalls(o) = 1
                  /\ trace[o][Len(trace[o])] = "free"
                  /\ trace[o][Len(trace[o]) - 1] \in UnregisterEvents
            /\ ost[o] = "dropped" => (UnregisterCalls(o) = 1 /\ Frees(o) = 1)

\* Both kinds of observer registered and torn down.
C1_Witness ==
    \A o \in {"perf_obs", "source_obs"} : Registered(o) /\ ost[o] = "dropped"

\* C2: an observer whose registration reported an error has, from the return
\* of its constructor on and through its teardown, a context that was freed
\* once, in the constructor, and has made no unregister call.
C2_FailedRegistrationRollsBack ==
    \A o \in Observers :
        RegistrationFailed(o) =>
            /\ trace[o] = <<"alloc", "register_err", "free">>
            /\ heap[o] = "freed"
            /\ ~nativeReg[o]

\* Both kinds of observer failed to register and were torn down.
C2_Witness ==
    \A o \in {"perf_obs", "saver_obs"} : RegistrationFailed(o) /\ ost[o] = "dropped"

\* C3: no trampoline and no closure dereferences a context that is not live,
\* no closure runs on a context that is not live, and while the context of a
\* registered observer is freed no callback of its registration is running.
C3_NoCallbackAfterFree ==
    /\ ~uaf
    /\ \A t \in Threads : thr[t].pc \in {"closure", "locked"} => Live(thr[t].context)
    /\ \A o \in Observers : (Registered(o) /\ heap[o] = "freed") => ~InFlight(o)

\* C4: a context is freed only when the native side no longer holds the
\* registration: after an unregister call that succeeded, or in the
\* constructor after a registration that failed.
C4_FreeOnlyAfterUnregisterSucceeded ==
    \A o \in Observers :
        heap[o] = "freed" =>
            /\ ~nativeReg[o]
            /\ RegistrationFailed(o) \/ CountIn(trace[o], "unregister_ok") > 0

\* C5: a teardown whose unregister call reports an error goes on: the call
\* itself does not end the process, and the step that completes the teardown
\* frees the context, for the first and only time, and does not end the
\* process.
C5_UnregisterErrorIgnored ==
    [][\A o \in Observers :
          /\ (UnregisterCalls(o) = 0 /\ CountIn(trace'[o], "unregister_err") = 1) =>
                (ost'[o] = "unregistered" /\ heap'[o] = "live" /\ aborted' = aborted)
          /\ (CountIn(trace[o], "unregister_err") > 0 /\ ost[o] # "dropped"
                /\ ost'[o] = "dropped") =>
                (Frees(o) = 0 /\ CountIn(trace'[o], "free") = 1 /\ heap'[o] = "freed"
                   /\ aborted' = aborted)]_vars

\* Both kinds of observer torn down after an unregister call that failed.
C5_Witness ==
    /\ ~aborted
    /\ \A o \in {"perf_obs", "source_obs"} :
          CountIn(trace[o], "unregister_err") = 1 /\ ost[o] = "dropped" /\ Frees(o) = 1

\* C6: running the Drop body again on an instance that was torn down makes
\* no further unregister call and no further free.
C6_SecondDropIsNoOp ==
    \A o \in Observers : UnregisterCalls(o) <= 1 /\ Frees(o) <= 1

\* C7: no trampoline call ends in a panic that unwinds out of the trampoline.
C7_TrampolinesNeverUnwind ==
    \A t \in Threads : thr[t].pc # "unwound"

\* C8: at most one thread is inside the section guarded by io_mutex, the
\* thread inside is the one that holds the mutex, and no callback crashes.
C8_OnePrinterNoCrash ==
    /\ Cardinality({t \in Threads : thr[t].pc = "locked"}) <= 1
    /\ \A t \in Threads : thr[t].pc = "locked" <=> lockHolder = t
    /\ \A t \in Threads : thr[t].pc # "unwound"
    /\ ~aborted

\* C9: a trampoline entered with a null context returns, static_callback with
\* status 0, without calling a closure and without changing anything but its
\* own frame.
C9_NullContextNoDispatch ==
    [][\A t \in Threads :
          (thr[t].pc = "tramp" /\ thr[t].context = NullPtr /\ thr'[t] # thr[t]) =>
              /\ thr'[t] = [thr[t] EXCEPT !.pc = "returned", !.ret = ReturnValue(thr[t].fn)]
              /\ UNCHANGED <<obsVars, ioVars, uaf, aborted>>]_vars

\* static_callback has returned from a call with a null context whose other
\* arguments would have passed every test.
C9_Witness ==
    \E t \in Threads :
        /\ thr[t].pc = "returned" /\ thr[t].fn = "static_callback"
        /\ thr[t].context = NullPtr
        /\ thr[t].type_ = PBT_POWERSETTINGCHANGE
        /\ thr[t].setting = Setting(4, <<1, 0, 0, 0>>)
        /\ thr[t].ret = <<0>>

\* C10: static_callback entered with a payload whose declared length is not 4
\* returns status 0 without calling a closure, whatever the tag, the context
\* and the bytes.
C10_WrongLengthNoDispatch ==
    [][\A t \in Threads :
          (/\ thr[t].pc = "tramp" /\ thr[t].fn = "static_callback"
           /\ ~thr[t].setting.isNull /\ thr[t].setting.DataLength # 4
           /\ thr'[t] # thr[t]) =>
              /\ thr'[t] = [thr[t] EXCEPT !.pc = "returned", !.ret = <<0>>]
              /\ UNCHANGED <<uaf, aborted>>]_vars

\* static_callback has returned from a call with an eight-byte payload, the
\* setting-changed tag and a live context.
C10_Witness ==
    \E t \in Threads :
        /\ thr[t].pc = "returned" /\ thr[t].fn = "static_callback"
        /\ Live(thr[t].context)
        /\ thr[t].type_ = PBT_POWERSETTINGCHANGE
        /\ ~thr[t].setting.isNull /\ thr[t].setting.DataLength = 8
        /\ thr[t].ret = <<0>>

\* C11: static_callback calls the closure exactly when the event tag is
\* PBT_POWERSETTINGCHANGE, the context is non-null, the payload pointer is
\* non-null and the declared length is 4; the value it passes is the
\* little-endian u32 of the first four data bytes, so <<1,0,0,0>> gives 1 and
\* <<0,0,0,0>> gives 0.  In every other case it returns without a call.
C11_SettingDispatchExactlyWhenValid ==
    [][\A t \in Threads :
         (thr[t].pc = "tramp" /\ thr[t].fn = "static_callback"
                              /\ thr'[t] # thr[t])
           => LET f == thr[t]
                  d == f.setting.Data
                  valid == /\ f.type_ = PBT_POWERSETTINGCHANGE
                           /\ f.context # NullPtr
                           /\ ~f.setting.isNull
                           /\ f.setting.DataLength = 4
              IN  IF valid
                  THEN /\ thr'[t].pc = "closure"
                       /\ thr'[t].closure = f.context
                       /\ thr'[t].val = d[1] + 256 * d[2] + 65536 * d[3]
                                             + 16777216 * d[4]
                       /\ (d = <<1, 0, 0, 0>> => thr'[t].val = 1)
                       /\ (d = <<0, 0, 0, 0>> => thr'[t].val = 0)
                  ELSE /\ thr'[t].pc = "returned"
                       /\ thr'[t].closure = NoObserver]_vars

C11_Witness ==
    \E t \in Threads :
        /\ thr[t].pc = "closure" /\ thr[t].fn = "static_callback"
        /\ thr[t].setting = Setting(4, <<1, 0, 0, 0>>)
        /\ thr[t].val = 1

\* The registration state of an observer, read off the native calls it made.
RegisterEvents == {"register_ok", "register_err"}
RegisterCalls(o) == Cardinality({i \in DOMAIN trace[o] : trace[o][i] \in RegisterEvents})
LiveRegistrations(o) ==
    CountIn(trace[o], "register_ok") - CountIn(trace[o], "unregister_ok")
RegState(o) ==
    CASE RegistrationFailed(o)                    -> "FailedRegistration"
      [] Registered(o) /\ UnregisterCalls(o) = 0 -> "Registered"
      [] OTHER                                    -> "Unregistered"
TornDown(o) == Registered(o) /\ UnregisterCalls(o) > 0

\* C12: the registration state of an observer changes only from Unregistered
\* to Registered or to FailedRegistration, by the one register call of its
\* constructor, and from Registered to Unregistered, by the unregister call of
\* its teardown; an observer has at most one native registration live; and an
\* observer in FailedRegistration or torn down makes no further native register
\* or unregister call.  Stated on every step that adds to the observer's record
\* of calls or changes its native registration.
C12_RegistrationStateMachine ==
    [][\A o \in Observers :
         (trace'[o] # trace[o] \/ nativeReg'[o] # nativeReg[o]) =>
           /\ RegState(o)' # RegState(o) =>
                 \/ /\ RegState(o) = "Unregistered" /\ ost[o] = "unborn"
                    /\ RegState(o)' \in {"Registered", "FailedRegistration"}
                    /\ ost'[o] = "constructed"
                 \/ /\ RegState(o) = "Registered" /\ ost[o] = "constructed"
                    /\ RegState(o)' = "Unregistered"
                    /\ ost'[o] = "unregistered"
           /\ RegisterCalls(o)' <= 1
           /\ RegisterCalls(o)' # RegisterCalls(o) => ost[o] = "unborn"
           /\ LiveRegistrations(o)' \in {0, 1}
           /\ nativeReg'[o] <=> LiveRegistrations(o)' = 1
           /\ (RegState(o) = "FailedRegistration" \/ TornDown(o)) =>
                 /\ RegisterCalls(o)' = RegisterCalls(o)
                 /\ UnregisterCalls(o)' = UnregisterCalls(o)]_vars

\* One observer went from Registered to torn down, another stayed in
\* FailedRegistration through its teardown.
C12_Witness ==
    /\ TornDown("perf_obs") /\ ost["perf_obs"] = "dropped"
    /\ RegState("source_obs") = "FailedRegistration" /\ ost["source_obs"] = "dropped"

\* A callback of the live registration of observer p, on thread t, that
\* reaches the closure of p.
CallbackReaches(t, p) ==
    \/ \E mode \in NativeModeValues :
           Native_static_cb(t, p, mode) /\ thr'[t].closure = p
    \/ \E c \in NativeSettingCalls :
           Native_static_callback(t, p, c[1], c[2]) /\ thr'[t].closure = p

C14_ModeTextsDistinct ==
    \A t \in Threads :
        (thr[t].pc \in {"closure", "locked"} /\ thr[t].fn = "static_cb"
                                             /\ thr[t].closure = "perf_obs")
          => LET m == thr[t].mode
                 line == thr[t].msg
             IN  /\ line # ""
                 /\ m \in 0..5 =>
                       \A k \in ModeValues \ {m} : describe_effective_mode(k) # line
                 /\ m \notin 0..5 =>
                       \A k \in ModeValues :
                           describe_effective_mode(k) = line <=> k \notin 0..5

\* The closure of perf_obs has built the line for mode 5.
C14_Witness ==
    \E t \in Threads :
        /\ thr[t].pc = "closure" /\ thr[t].fn = "static_cb"
        /\ thr[t].closure = "perf_obs" /\ thr[t].mode = 5
        /\ thr[t].msg = "slider: game mode"

\* C15: once its constructor has returned, no step changes an observer's
\* stored handle or stored context address, neither a callback nor a step of
\* its teardown; and a teardown step does nothing but make the native
\* unregister call or free the observer's own context.
C15_ObserverImmutable ==
    [][\A o \in Observers :
         /\ ost[o] # "unborn" =>
               /\ handle'[o] = handle[o]
               /\ raw_context'[o] = raw_context[o]
         /\ (ost[o] \in {"constructed", "unregistered"} /\ ost'[o] # ost[o]) =>
               /\ \/ /\ trace'[o] = trace[o]
                     /\ heap' = heap /\ nativeReg' = nativeReg
                  \/ /\ \E e \in UnregisterEvents : trace'[o] = Append(trace[o], e)
                     /\ heap' = heap
                     /\ \A p \in Observers \ {o} : nativeReg'[p] = nativeReg[p]
                  \/ /\ trace'[o] = Append(trace[o], "free")
                     /\ heap' = [heap EXCEPT ![raw_context[o]] = "freed"]
                     /\ nativeReg' = nativeReg
               /\ \A p \in Observers \ {o} : trace'[p] = trace[p] /\ ost'[p] = ost[p]
               /\ UNCHANGED <<created, stderr, thr, lockHolder, poisoned, uaf,
                              aborted>>]_vars

\* A registered mode observer is torn down while a callback of a setting
\* observer is in its closure: handle and context address are as constructed.
C15_Witness ==
    /\ ost["perf_obs"] = "dropped" /\ Frees("perf_obs") = 1
    /\ handle["perf_obs"] = HandleOf("perf_obs")
    /\ raw_context["perf_obs"] = Ctx("perf_obs")
    /\ \E t \in Threads : thr[t].pc = "closure" /\ thr[t].closure = "source_obs"

\* C16: from the return of its constructor until its teardown begins, an
\* observer has a handle (non-null for the mode observer, Some for a setting
\* observer) exactly when its context allocation is live; and the handle of a
\* mode observer whose registration reported an error is null.
C16_HandlePresentIffContextLive ==
    \A o \in Observers :
        (ost[o] = "constructed" /\ drops[o] = 0) =>
            /\ (IF o \in ModeObservers THEN handle[o] # NullPtr
                                       ELSE handle[o] # NoneHandle)
                  <=> heap[raw_context[o]] = "live"
            /\ (o \in ModeObservers /\ RegistrationFailed(o)) => handle[o] = NullPtr

\* A mode observer whose registration failed next to a registered setting
\* observer, both before their teardown.
C16_Witness ==
    /\ ost["perf_obs"] = "constructed" /\ RegistrationFailed("perf_obs")
    /\ handle["perf_obs"] = NullPtr /\ heap["perf_obs"] = "freed"
    /\ ost["source_obs"] = "constructed" /\ Registered("source_obs")
    /\ handle["source_obs"] = HandleOf("source_obs") /\ heap["source_obs"] = "live"

\* C17: a callback of the native side that passed the trampoline's tests is in
\* the closure of the observer its registration belongs to, with the context
\* that observer registered, and never in the closure of another observer;
\* the mode trampoline hands the closure the mode it was called with.
C17_CallbackReachesOwnClosure ==
    \A t \in Threads :
        (thr[t].reg # NoObserver /\ thr[t].pc \in {"closure", "locked"}) =>
            /\ thr[t].closure = thr[t].reg
            /\ thr[t].context = Ctx(thr[t].reg)
            /\ thr[t].fn = "static_cb" => thr[t].val = thr[t].mode

\* C18: whenever static_callback has decoded a value and called the closure,
\* the slice it decoded had exactly four bytes, so try_into did not fall back
\* to zero: a value 0 handed to the closure comes from the bytes <<0,0,0,0>>.
C18_ZeroFallbackNeverTaken ==
    \A t \in Threads :
        (thr[t].fn = "static_callback" /\ thr[t].pc \in {"closure", "locked"}) =>
            /\ Len(data_slice(thr[t].setting)) = 4
            /\ try_into_or_zero(data_slice(thr[t].setting)) = thr[t].setting.Data
            /\ thr[t].val = 0 => thr[t].setting.Data = <<0, 0, 0, 0>>

\* The closure was called with 0, decoded from four zero bytes.
C18_Witness ==
    \E t \in Threads :
        /\ thr[t].pc = "closure" /\ thr[t].fn = "static_callback"
        /\ thr[t].val = 0
        /\ thr[t].setting = Setting(4, <<0, 0, 0, 0>>)

\* C19: under fair scheduling a callback that has reached its closure gets
\* io_mutex, writes its line, releases the mutex and returns, which leaves its
\* thread free for the next call; the mutex is held for that one step only,
\* and is released by the step that ends it.
C19_DispatchCompletes ==
    /\ \A t \in Threads : (thr[t].pc = "closure") ~> (thr[t].pc = "idle")
    /\ [][\A t \in Threads :
             (lockHolder = t /\ thr'[t] # thr[t]) => lockHolder' = 0]_vars

====
